---- MODULE Spec2Model ----
(***************************************************************************)
(* Big Dawgs backend: the OTP lifecycle (sendOTP, verifyOTP, adminSendOTP, *)
(* adminVerifyOTP), the admin router behind adminAuth, verifyPayment and   *)
(* the Express route table, over the tables of the remote database.        *)
(*                                                                         *)
(* Text values (emails, OTP codes) are sequences of one-character strings, *)
(* so that trim(), toLowerCase(), length and the email regex are computed. *)
(* <<>> stands for an absent, null or empty value (all falsy in the code). *)
(* Time is counted in minutes.                                             *)
(***************************************************************************)
EXTENDS Integers, Sequences, FiniteSets, Bags, TLC

VARIABLES
    now,          \* the server clock (Date.now()), in minutes
    users,        \* table users: sequence of rows, in insertion order
    otp_codes,    \* table otp_codes: bag of rows
    acceptCount,  \* history: per user id, tokens issued by verify since the last OTP stored for it
    issued,       \* history: per user id, the code stored last for it and when (NotIssued: none yet)
    lastReq,      \* the OTP request handled last (NoReq when none since the clock moved)
    resp,         \* the response to lastReq
    calls,        \* the database queries lastReq issued, with their fetch attempts
    mail,         \* what the email provider did for lastReq ("none": not called)
    inflight,     \* verify requests running side by side: per process, where it stands
    draw,         \* the code generateOTP() returned for lastReq (None: not called)
    probe,        \* one request set aside: what it met and what it did
    twin,         \* adminSendOTP only: the response of the same request had the
                  \* email's registration as active admin been the opposite
    products,     \* table products: sequence of rows, in insertion order (live: not deleted)
    product_images, \* table product_images: set of rows
    orders,       \* table orders: sequence of rows, in insertion order
    order_items,  \* table order_items: bag of rows
    payments,     \* table payments: bag of rows
    storage,      \* number of objects in the product-images bucket
    shopReq,      \* the order or admin request handled last
    shopResp,     \* the response to shopReq
    dbCalls,      \* the database and storage calls shopReq issued
    routeReq,     \* an incoming HTTP request (method, path, body) ...
    routeRes      \* ... and what answered it

otpVars == <<now, users, otp_codes, acceptCount, issued, lastReq, resp, calls, mail, twin, inflight,
            draw, probe>>
shopVars == <<products, product_images, orders, order_items, payments, storage,
              shopReq, shopResp, dbCalls>>
routeVars == <<routeReq, routeRes>>
vars == <<otpVars, shopVars, routeVars>>

----------------------------------------------------------------------------
(* Bounds                                                                  *)

MaxUsers == 1
MaxTime == 20
TickStep == 10

----------------------------------------------------------------------------
(* Program constants                                                       *)

OTP_TTL == 10
ADMIN_OTP_TTL == 10
OTP_LENGTH == 6
USER_JWT_TTL == 10080
ADMIN_JWT_TTL == 480
retries == 3

Null == "null"
None == <<>>
WS == {" "}

\* process.env.JWT_SECRET as deployed, and the fallback of the admin code
EnvJwtSecret == "env-secret"

----------------------------------------------------------------------------
(* Text helpers                                                            *)

RECURSIVE TrimStart(_)
TrimStart(s) ==
    IF s # <<>> /\ Head(s) \in WS THEN TrimStart(Tail(s)) ELSE s

RECURSIVE TrimEnd(_)
TrimEnd(s) ==
    IF s # <<>> /\ s[Len(s)] \in WS THEN TrimEnd(SubSeq(s, 1, Len(s) - 1)) ELSE s

Trim(s) == TrimEnd(TrimStart(s))

LowerChar(c) ==
    CASE c = "R" -> "r"
      [] c = "O" -> "o"
      [] c = "N" -> "n"
      [] OTHER -> c

ToLowerCase(s) == [i \in 1..Len(s) |-> LowerChar(s[i])]

\* /^[^\s@]+@[^\s@]+\.[^\s@]+$/
EmailRegexTest(s) ==
    \E i \in 2..Len(s) :
        /\ s[i] = "@"
        /\ \A k \in 1..Len(s) : s[k] \notin WS /\ (k # i => s[k] # "@")
        /\ \E j \in (i + 2)..(Len(s) - 1) : s[j] = "."

----------------------------------------------------------------------------
(* Values drawn by the requests                                            *)

CodeA == <<"1", "1", "1", "1", "1", "1">>
CodeB == <<"2", "2", "2", "2", "2", "2">>
\* crypto.randomInt(100000, 999999).toString(): two representatives
Codes == {CodeA, CodeB}

CustEmail == <<"a", "@", "b", ".", "c">>
AdminEmail == <<"r", "@", "b", ".", "c">>
OffEmail == <<"o", "@", "b", ".", "c">>
NobodyEmail == <<"n", "@", "b", ".", "c">>

NoId == ""
InvalidId == "invalid"
AdminId == "a1"
OffId == "a2"

\* admin_users is never written by the code under study
admin_users ==
    { [id |-> AdminId, email |-> AdminEmail, is_active |-> TRUE],
      [id |-> OffId, email |-> OffEmail, is_active |-> FALSE] }

UserIdOf(i) == "u" \o ToString(i)

SendEmails == {None, CustEmail, <<"a", "b">>}
\* requests that give a phone number are not enumerated
SendPhones == {None}
AdminSendEmails ==
    {None, <<" ">>, AdminEmail, <<" ", "R", "@", "b", ".", "c">>, OffEmail, NobodyEmail}
VerifyEmails == {None, CustEmail}
VerifyUserIds == {NoId, UserIdOf(1), AdminId, InvalidId}
OtpInputs == {None, CodeA, CodeB, <<" ">> \o CodeA, <<"1", "2", "3">>}

----------------------------------------------------------------------------
(* The database client: every query goes through fetchWithRetry            *)

\* what one fetch attempt can meet
Outcomes == {"ok", "s5xx", "s4xx", "neterr", "err"}
RetryStatus == {"s5xx"}          \* [500, 502, 503, 504, 525].includes(res.status)
NetworkError == {"neterr"}       \* message includes SSL, 525, handshake, ECONNRESET, fetch failed
Thrown == {"neterr", "err"}

\* fetchWithRetry as the loop runs it on the outcomes trace[attempt] of its
\* attempts: the number of attempts made and whether a 2xx response came back
RECURSIVE FetchAttempt(_, _, _)
FetchAttempt(trace, attempt, limit) ==
    IF attempt > limit THEN [n |-> attempt - 1, ok |-> FALSE]
    ELSE IF trace[attempt] \in Thrown
    THEN IF trace[attempt] \in NetworkError /\ attempt < limit
         THEN FetchAttempt(trace, attempt + 1, limit)
         ELSE [n |-> attempt, ok |-> FALSE]
    ELSE IF trace[attempt] \in RetryStatus /\ attempt < limit
         THEN FetchAttempt(trace, attempt + 1, limit)
         ELSE [n |-> attempt, ok |-> trace[attempt] = "ok"]

\* an off-by-one in the loop bound: one attempt more than retries
fetchWithRetryOneMore(trace) == FetchAttempt(trace, 1, retries + 1)

fetchWithRetry(trace) == FetchAttempt(trace, 1, retries)

\* the outcomes the attempts of one query may meet
Traces == [1..(retries + 1) -> Outcomes]

\* a network on which every attempt gets a definite answer, and one with
\* transient faults
StableNet == {fetchWithRetry(t) : t \in {x \in Traces : \A i \in DOMAIN x : x[i] = x[1] /\ x[1] \in {"ok", "s4xx"}}}
FlakyNet == {fetchWithRetry(t) : t \in Traces}
\* a network and a database that answer every query at once
PerfectNet == {fetchWithRetry([i \in 1..(retries + 1) |-> "ok"])}

Call(q, r) == [q |-> q, n |-> r.n, ok |-> r.ok]

----------------------------------------------------------------------------
(* Tables                                                                  *)

\* full_name is written by sendOTP and read by no handler: it is left out
UserRow(id, email, phone) == [id |-> id, email |-> email, phone |-> phone]

OtpRow(uid, code, exp) ==
    [user_id |-> uid, code |-> code, expires_at |-> exp, used |-> FALSE]


\* .or("email.eq.E,phone.eq.P"): the indexes of the users rows that match
UsersMatching(tbl, email, phone) ==
    {i \in 1..Len(tbl) :
        \/ email # None /\ tbl[i].email = email
        \/ phone # None /\ tbl[i].phone = phone}

\* .maybeSingle(): the row when exactly one matches; no data otherwise (more
\* than one row is an error, which sendOTP does not read)
MaybeSingle(S) == IF Cardinality(S) = 1 THEN S ELSE {}

\* rows of otp_codes with user_id = uid (one copy of each)
OtpOf(tbl, uid) == {r \in BagToSet(tbl) : r.user_id = uid}

\* an upsert whose conflict target is (user_id, code): a row with another code
\* is left in place beside the new one
OtpUpsertOnCode(tbl, row) ==
    [r \in {x \in DOMAIN tbl : ~(x.user_id = row.user_id /\ x.code = row.code)} |-> tbl[r]]
        (+) SetToBag({row})

\* an upsert that misses the conflict and inserts a second row
OtpUpsertNoConflict(tbl, row) == tbl (+) SetToBag({row})

\* upsert(row, {onConflict: "user_id"}): user_id carries a unique constraint;
\* the conflicting row is overwritten, else the row is inserted
OtpUpsert(tbl, row) ==
    LET old == OtpOf(tbl, row.user_id) IN
    [r \in (DOMAIN tbl \ old) |-> tbl[r]] (+) SetToBag({row})

\* insert(row) violates the unique constraint when user_id already has a row
OtpInsertable(tbl, row) == OtpOf(tbl, row.user_id) = {}
OtpInsert(tbl, row) == tbl (+) SetToBag({row})

\* delete().eq("user_id", uid)
OtpDelete(tbl, uid) == [r \in (DOMAIN tbl \ OtpOf(tbl, uid)) |-> tbl[r]]

\* select * where user_id = uid and used = false order by expires_at desc
\* limit 1: the rows the query may return (ties are broken by the database)
\* the lookup behind a note, kept by the process, of the users it has verified
OtpLatestUnusedCached(tbl, uid) ==
    LET live == {r \in OtpOf(tbl, uid) : ~r.used} IN
    IF uid \in DOMAIN acceptCount /\ acceptCount[uid] > 0 THEN {}
    ELSE {r \in live : \A q \in live : q.expires_at <= r.expires_at}

OtpLatestUnused(tbl, uid) ==
    LET live == {r \in OtpOf(tbl, uid) : ~r.used} IN
    {r \in live : \A q \in live : q.expires_at <= r.expires_at}

\* update({used: true}).eq("id", row.id)
OtpMarkUsed(tbl, row) ==
    (tbl (-) SetToBag({row})) (+) SetToBag({[row EXCEPT !.used = TRUE]})


----------------------------------------------------------------------------
(* Requests, responses, tokens                                             *)

NoToken == [userId |-> NoId, email |-> None, role |-> Null, secret |-> Null, exp |-> 0]

\* jwt.sign({ userId }, JWT_SECRET, { expiresIn: "7d" })
UserToken(uid, t) ==
    [userId |-> uid, email |-> None, role |-> Null, secret |-> EnvJwtSecret,
     exp |-> t + USER_JWT_TTL]

\* jwt.sign({ userId, email, role: "admin" }, process.env.JWT_SECRET || "secret", { expiresIn: "8h" })
AdminToken(uid, email, t) ==
    [userId |-> uid, email |-> email, role |-> "admin", secret |-> EnvJwtSecret,
     exp |-> t + ADMIN_JWT_TTL]

Response(status, success, message, error, userId, token, email) ==
    [status |-> status, success |-> success, message |-> message, error |-> error,
     userId |-> userId, token |-> token, email |-> email]

\* res.status(s).json({ success: false, error: { message } })
Fail(status, msg) == Response(status, "false", Null, msg, NoId, NoToken, None)
\* res.status(s).json({ error })
AdminFail(status, msg) == Response(status, Null, Null, msg, NoId, NoToken, None)

NoResp == Response(0, Null, Null, Null, NoId, NoToken, None)

Req(op, email, phone, userId, otp) ==
    [op |-> op, email |-> email, phone |-> phone, userId |-> userId, otp |-> otp]

NoReq == Req("none", None, None, NoId, None)

OtpOwners == {UserIdOf(i) : i \in 1..MaxUsers} \cup {AdminId}

MailOutcomes == {"nokey", "sent", "error", "throw"}
SmtpOutcomes == {"sent", "throw"}

Reply(req, r, log, sent) ==
    /\ lastReq' = req
    /\ resp' = r
    /\ calls' = log
    /\ mail' = sent

\* a new OTP stored for uid starts a new count of accepted verifications
Issued(uid) ==
    IF uid \in DOMAIN acceptCount THEN [acceptCount EXCEPT ![uid] = 0] ELSE acceptCount

Accepted(uid) ==
    IF uid \in DOMAIN acceptCount
    THEN [acceptCount EXCEPT ![uid] = IF @ < 2 THEN @ + 1 ELSE @]
    ELSE acceptCount

NotIssued == [code |-> None, at |-> 0 - 1]

\* the unused rows a send request has written: those of the table after it
\* that the table before it did not hold; each is the code stored last for
\* its user, at the present time
Stored(before, after) ==
    [u \in OtpOwners |->
        LET new == {r \in DOMAIN after :
                       r.user_id = u /\ ~r.used /\ CopiesIn(r, after) > CopiesIn(r, before)}
        IN  IF new = {} THEN issued[u]
            ELSE [code |-> (CHOOSE r \in new : TRUE).code, at |-> now]]

\* the request set aside: pc "none" (none), "armed" (the next request is the
\* one; db is the database it will meet and served the tokens issued so far,
\* which no handler keeps), "seen" (that request was handled: the clock, the
\* request, what the database calls, the email provider and generateOTP() gave
\* it, its response and the database it left)
NoProbe ==
    [pc |-> "none", db |-> <<>>, served |-> <<>>, now |-> 0, req |-> NoReq, calls |-> <<>>,
     mail |-> "none", draw |-> None, resp |-> NoResp, after |-> <<>>]

\* the requests in flight at one time
Procs == {1, 2}

\* where a verify request stands: pc "idle" (none), "fetched" (the OTP row was
\* read and passed the checks), "marked" (the update was sent), "done" (resp
\* is its response)
Flight(pc, req, rec, r) == [pc |-> pc, req |-> req, rec |-> rec, resp |-> r]

NoFlight == Flight("idle", NoReq, OtpRow(NoId, None, 0), NoResp)

----------------------------------------------------------------------------
(* Initial state                                                           *)

InitOtp ==
    /\ now = 0
    /\ users = <<>>
    /\ otp_codes = EmptyBag
    /\ acceptCount = [u \in OtpOwners |-> 0]
    /\ issued = [u \in OtpOwners |-> NotIssued]
    /\ inflight = [p \in Procs |-> NoFlight]
    /\ draw = None
    /\ probe = NoProbe
    /\ lastReq = NoReq
    /\ resp = NoResp
    /\ calls = <<>>
    /\ mail = "none"
    /\ twin = NoResp

\* requests are handled one after another
Idle == lastReq = NoReq

\* time passes between two requests
Tick ==
    /\ Idle
    /\ now + TickStep <= MaxTime
    /\ now' = now + TickStep
    /\ UNCHANGED <<users, otp_codes, acceptCount, issued, lastReq, resp, calls, mail, twin, inflight,
                   draw, probe>>
    /\ UNCHANGED <<shopVars, routeVars>>

\* the response is sent and the request is over
Deliver ==
    /\ ~Idle
    /\ lastReq' = NoReq
    /\ resp' = NoResp
    /\ calls' = <<>>
    /\ mail' = "none"
    /\ twin' = NoResp
    /\ draw' = None
    /\ UNCHANGED <<now, users, otp_codes, acceptCount, issued, inflight, probe>>
    /\ UNCHANGED <<shopVars, routeVars>>

\* the request set aside was handled: what it met and what it did is noted
Record ==
    /\ ~Idle
    /\ probe.pc = "armed"
    /\ probe' = [probe EXCEPT !.pc = "seen", !.now = now, !.req = lastReq, !.calls = calls,
                              !.mail = mail, !.draw = draw, !.resp = resp,
                              !.after = <<users, otp_codes>>]
    /\ UNCHANGED <<now, users, otp_codes, acceptCount, issued, lastReq, resp, calls, mail, twin,
                   inflight, draw>>
    /\ UNCHANGED <<shopVars, routeVars>>

\* the request set aside is over once it was noted
DeliverNoted == probe.pc # "armed" /\ Deliver

----------------------------------------------------------------------------
(* POST /api/auth/send-otp                                                 *)

\* otpExpiresAt(): d.setMinutes(d.getMinutes() + 10)
otpExpiresAt(t) == t + OTP_TTL

\* the email step of sendOTP: the response it ends the request with
SendOTPMailReply(email, m, uid) ==
    IF email # None /\ m = "error" THEN Fail(500, "Email delivery failed")
    ELSE IF email # None /\ m = "throw" THEN Fail(500, "Email service error")
    ELSE Response(200, "true", "OTP sent successfully", Null, uid, NoToken, None)

\* the OTP store step and what follows, for the resolved user
SendOTPStore(net, req, uid, log, newUsers) ==
    \E otp \in Codes, r \in net :
        LET row == OtpRow(uid, otp, otpExpiresAt(now))
            log2 == Append(log, Call("otp_codes.upsert", r))
        IN  IF ~r.ok
            THEN /\ Reply(req, Fail(500, "Failed to store OTP"), log2, "none")
                 /\ users' = newUsers
                 /\ draw' = otp
                 /\ UNCHANGED <<otp_codes, acceptCount>>
            ELSE /\ otp_codes' = OtpUpsert(otp_codes, row)
                 /\ acceptCount' = Issued(uid)
                 /\ users' = newUsers
                 /\ draw' = otp
                 /\ IF req.email = None
                    THEN Reply(req, SendOTPMailReply(req.email, "none", uid), log2, "none")
                    ELSE \E m \in MailOutcomes :
                             Reply(req, SendOTPMailReply(req.email, m, uid), log2, m)

sendOTP(net) ==
    /\ Idle
    /\ \E email \in SendEmails, phone \in SendPhones :
        LET req == Req("sendOTP", email, phone, NoId, None) IN
        IF email = None /\ phone = None
        THEN /\ Reply(req, Fail(400, "Email or phone required"), <<>>, "none")
             /\ UNCHANGED <<users, otp_codes, acceptCount, draw>>
        ELSE IF email # None /\ ~EmailRegexTest(email)
        THEN /\ Reply(req, Fail(400, "Invalid email format"), <<>>, "none")
             /\ UNCHANGED <<users, otp_codes, acceptCount, draw>>
        ELSE \E r1 \in net, r2 \in net :
            LET found == IF r1.ok THEN MaybeSingle(UsersMatching(users, email, phone)) ELSE {}
                log1 == <<Call("users.select", r1)>>
            IN  IF found # {}
                THEN LET i == CHOOSE j \in found : TRUE
                         log2 == Append(log1, Call("users.update", r2))
                     IN  IF ~r2.ok
                         THEN /\ Reply(req, Fail(500, "Failed to update user record"), log2, "none")
                              /\ UNCHANGED <<users, otp_codes, acceptCount, draw>>
                         ELSE SendOTPStore(net, req, users[i].id, log2, users)
                ELSE LET log2 == Append(log1, Call("users.insert", r2))
                         id == UserIdOf(Len(users) + 1)
                     IN  \* the users table is capped at MaxUsers rows: past it the insert fails
                         IF ~r2.ok \/ Len(users) >= MaxUsers
                         THEN /\ Reply(req, Fail(500, "Failed to create user record"), log2, "none")
                              /\ UNCHANGED <<users, otp_codes, acceptCount, draw>>
                         ELSE SendOTPStore(net, req, id, log2,
                                  Append(users, UserRow(id, email, phone)))
    /\ twin' = NoResp
    /\ issued' = Stored(otp_codes, otp_codes')
    /\ UNCHANGED <<now, inflight, probe>>
    /\ UNCHANGED <<shopVars, routeVars>>

----------------------------------------------------------------------------
(* POST /api/auth/verify-otp                                               *)

\* the comparison turned around
ExpiredReversed(row, t) == row.expires_at > t

\* new Date(otpRecord.expires_at) < new Date()
Expired(row, t) == row.expires_at < t

\* String(otpRecord.code).trim() !== String(otp).trim()
CodeMismatch(row, otp) == Trim(row.code) # Trim(otp)

\* !otp || otp.trim().length !== 6
BadOtpInput(otp) == otp = None \/ Len(Trim(otp)) # OTP_LENGTH

\* .eq("email", email).maybeSingle() on users
UsersByEmail(tbl, email) == {i \in 1..Len(tbl) : tbl[i].email = email}

\* .eq("id", id).single() on users
UsersById(tbl, id) == {i \in 1..Len(tbl) : tbl[i].id = id}

\* a failed mark-as-used update ends the request with 500
VerifyOTPIssueFatal(net, req, uid, rec, log) ==
    \E rm \in net, ru \in net :
        LET log2 == Append(log, Call("otp_codes.update", rm))
            log3 == Append(log2, Call("users.select(id)", ru))
        IN  IF ~rm.ok
            THEN /\ Reply(req, Fail(500, "Verification failed"), log2, "none")
                 /\ UNCHANGED <<otp_codes, acceptCount>>
            ELSE /\ otp_codes' = OtpMarkUsed(otp_codes, rec)
                 /\ IF ~ru.ok \/ Cardinality(UsersById(users, uid)) # 1
                    THEN /\ Reply(req, Fail(500, "Verified but could not load user data"), log3, "none")
                         /\ UNCHANGED acceptCount
                    ELSE /\ Reply(req, Response(200, "true", Null, Null, uid, UserToken(uid, now), None),
                                  log3, "none")
                         /\ acceptCount' = Accepted(uid)

\* mark as used (the error is logged, not acted on), sign the token and load the user
VerifyOTPIssue(net, req, uid, rec, log) ==
    \E rm \in net, ru \in net :
        LET log2 == log \o <<Call("otp_codes.update", rm), Call("users.select(id)", ru)>>
            token == UserToken(uid, now)
        IN  /\ otp_codes' = IF rm.ok THEN OtpMarkUsed(otp_codes, rec) ELSE otp_codes
            /\ IF ~ru.ok \/ Cardinality(UsersById(users, uid)) # 1
               THEN /\ Reply(req, Fail(500, "Verified but could not load user data"), log2, "none")
                    /\ UNCHANGED acceptCount
               ELSE /\ Reply(req, Response(200, "true", Null, Null, uid, token, None), log2, "none")
                    /\ acceptCount' = Accepted(uid)

\* fetch the OTP record of the resolved user and check it
VerifyOTPCheck(net, req, uid, log) ==
    \E rf \in net :
        LET log2 == Append(log, Call("otp_codes.select", rf))
            got == IF rf.ok THEN OtpLatestUnused(otp_codes, uid) ELSE {}
        IN  IF got = {}
            THEN /\ Reply(req, Fail(400, "No active OTP found. Please request a new one."), log2, "none")
                 /\ UNCHANGED <<otp_codes, acceptCount>>
            ELSE \E rec \in got :
                IF Expired(rec, now)
                THEN /\ Reply(req, Fail(400, "OTP has expired. Please request a new one."), log2, "none")
                     /\ UNCHANGED <<otp_codes, acceptCount>>
                ELSE IF CodeMismatch(rec, req.otp)
                THEN /\ Reply(req, Fail(400, "Incorrect OTP. Please try again."), log2, "none")
                     /\ UNCHANGED <<otp_codes, acceptCount>>
                ELSE VerifyOTPIssue(net, req, uid, rec, log2)

verifyOTP(net) ==
    /\ Idle
    /\ \E email \in VerifyEmails, userId \in VerifyUserIds, otp \in OtpInputs :
        LET req == Req("verifyOTP", email, None, userId, otp) IN
        IF BadOtpInput(otp)
        THEN /\ Reply(req, Fail(400, "A 6-digit OTP is required"), <<>>, "none")
             /\ UNCHANGED <<otp_codes, acceptCount>>
        ELSE IF userId = NoId /\ email = None
        THEN /\ Reply(req, Fail(400, "userId or email is required"), <<>>, "none")
             /\ UNCHANGED <<otp_codes, acceptCount>>
        ELSE IF userId # NoId
        THEN VerifyOTPCheck(net, req, userId, <<>>)
        ELSE \E r \in net :
            LET found == IF r.ok THEN MaybeSingle(UsersByEmail(users, email)) ELSE {}
                log == <<Call("users.select(email)", r)>>
            IN  IF found = {}
                THEN /\ Reply(req, Fail(400, "User not found"), log, "none")
                     /\ UNCHANGED <<otp_codes, acceptCount>>
                ELSE VerifyOTPCheck(net, req, users[CHOOSE j \in found : TRUE].id, log)
    /\ twin' = NoResp
    /\ UNCHANGED <<now, users, issued, inflight, draw, probe>>
    /\ UNCHANGED <<shopVars, routeVars>>

----------------------------------------------------------------------------
(* POST /api/auth/admin-send-otp                                           *)

\* email.toLowerCase().trim()
NormalizeEmail(email) == Trim(ToLowerCase(email))

\* .eq("email", normalizedEmail).maybeSingle() on the admin table tbl
AdminByEmail(tbl, email) == MaybeSingle({a \in tbl : a.email = email})

\* .eq("id", userId).maybeSingle() on admin_users
AdminById(tbl, id) == MaybeSingle({a \in tbl : a.id = id})

Vague == Response(200, Null, "OTP sent if email is registered", Null, InvalidId, NoToken, None)

\* the response of adminSendOTP to a non-blank email, from what its steps met:
\* the lookup (lookupOk, found), the insert of the OTP row, the SMTP send
AdminSendOTPReply(lookupOk, found, insertOk, smtp) ==
    IF ~lookupOk THEN Vague
    ELSE IF found = {} \/ \A a \in found : ~a.is_active THEN Vague
    ELSE IF ~insertOk THEN AdminFail(500, "Failed to generate OTP")
    ELSE IF smtp = "throw" THEN AdminFail(500, "Email delivery failed")
    ELSE Response(200, Null, "OTP sent", Null, (CHOOSE a \in found : TRUE).id, NoToken, None)

IsActiveAdmin(found) == found # {} /\ \E a \in found : a.is_active

\* the same email, registered as an active admin in the other run
TwinAdmin(email) == {[id |-> "a9", email |-> email, is_active |-> TRUE]}

adminSendOTP(net) ==
    /\ Idle
    /\ \E email \in AdminSendEmails :
        LET req == Req("adminSendOTP", email, None, NoId, None) IN
        IF email = None \/ Trim(email) = None
        THEN /\ Reply(req, AdminFail(400, "Email is required"), <<>>, "none")
             /\ twin' = NoResp
             /\ UNCHANGED <<otp_codes, acceptCount, draw>>
        ELSE \E r1 \in net :
            LET normalizedEmail == NormalizeEmail(email)
                found == AdminByEmail(admin_users, normalizedEmail)
                log1 == <<Call("admin_users.select", r1)>>
            IN  IF ~r1.ok \/ ~IsActiveAdmin(found)
                THEN /\ Reply(req, AdminSendOTPReply(r1.ok, found, TRUE, "sent"), log1, "none")
                     /\ \E ins \in BOOLEAN, smtp \in SmtpOutcomes :
                            twin' = AdminSendOTPReply(r1.ok, TwinAdmin(normalizedEmail), ins, smtp)
                     /\ UNCHANGED <<otp_codes, acceptCount, draw>>
                ELSE \E otp \in Codes, rd \in net, ri \in net :
                    LET uid == (CHOOSE a \in found : TRUE).id
                        row == OtpRow(uid, otp, now + ADMIN_OTP_TTL)
                        afterDelete == IF rd.ok THEN OtpDelete(otp_codes, uid) ELSE otp_codes
                        insertOk == ri.ok /\ OtpInsertable(afterDelete, row)
                        log3 == log1 \o <<Call("otp_codes.delete", rd), Call("otp_codes.insert", ri)>>
                    IN  /\ twin' = AdminSendOTPReply(r1.ok, {}, TRUE, "sent")
                        /\ draw' = otp
                        /\ IF ~insertOk
                           THEN /\ Reply(req, AdminSendOTPReply(TRUE, found, FALSE, "sent"), log3, "none")
                                /\ otp_codes' = afterDelete
                                /\ UNCHANGED acceptCount
                           ELSE /\ otp_codes' = OtpInsert(afterDelete, row)
                                /\ acceptCount' = Issued(uid)
                                /\ \E smtp \in SmtpOutcomes :
                                       Reply(req, AdminSendOTPReply(TRUE, found, TRUE, smtp), log3, smtp)
    /\ issued' = Stored(otp_codes, otp_codes')
    /\ UNCHANGED <<now, users, inflight, probe>>
    /\ UNCHANGED <<shopVars, routeVars>>

----------------------------------------------------------------------------
(* POST /api/auth/admin-verify-otp                                         *)

AdminVerifyOTPIssue(net, req, rec, log) ==
    \E rm \in net, ra \in net :
        LET log2 == log \o <<Call("otp_codes.update", rm), Call("admin_users.select", ra)>>
            found == IF ra.ok THEN AdminById(admin_users, req.userId) ELSE {}
        IN  /\ otp_codes' = IF rm.ok THEN OtpMarkUsed(otp_codes, rec) ELSE otp_codes
            /\ IF found = {}
               THEN /\ Reply(req, AdminFail(401, "Admin user not found"), log2, "none")
                    /\ UNCHANGED acceptCount
               ELSE LET a == CHOOSE x \in found : TRUE IN
                    /\ Reply(req, Response(200, Null, Null, Null, NoId,
                                           AdminToken(a.id, a.email, now), a.email), log2, "none")
                    /\ acceptCount' = Accepted(req.userId)

adminVerifyOTP(net) ==
    /\ Idle
    /\ \E userId \in VerifyUserIds, otp \in OtpInputs :
        LET req == Req("adminVerifyOTP", None, None, userId, otp) IN
        IF userId = NoId \/ otp = None
        THEN /\ Reply(req, AdminFail(400, "userId and otp are required"), <<>>, "none")
             /\ UNCHANGED <<otp_codes, acceptCount>>
        ELSE IF Len(Trim(otp)) # OTP_LENGTH
        THEN /\ Reply(req, AdminFail(400, "OTP must be 6 digits"), <<>>, "none")
             /\ UNCHANGED <<otp_codes, acceptCount>>
        ELSE IF userId = InvalidId
        THEN /\ Reply(req, AdminFail(401, "Invalid or expired OTP"), <<>>, "none")
             /\ UNCHANGED <<otp_codes, acceptCount>>
        ELSE \E rf \in net :
            LET log == <<Call("otp_codes.select", rf)>>
                got == IF rf.ok THEN OtpLatestUnused(otp_codes, userId) ELSE {}
            IN  IF ~rf.ok
                THEN /\ Reply(req, AdminFail(500, "Failed to verify OTP"), log, "none")
                     /\ UNCHANGED <<otp_codes, acceptCount>>
                ELSE IF got = {}
                THEN /\ Reply(req, AdminFail(400, "No active OTP found. Please request a new one."), log, "none")
                     /\ UNCHANGED <<otp_codes, acceptCount>>
                ELSE \E rec \in got :
                    IF Expired(rec, now)
                    THEN /\ Reply(req, AdminFail(400, "OTP has expired. Please request a new one."), log, "none")
                         /\ UNCHANGED <<otp_codes, acceptCount>>
                    ELSE IF CodeMismatch(rec, otp)
                    THEN /\ Reply(req, AdminFail(400, "Incorrect OTP. Please try again."), log, "none")
                         /\ UNCHANGED <<otp_codes, acceptCount>>
                    ELSE AdminVerifyOTPIssue(net, req, rec, log)
    /\ twin' = NoResp
    /\ UNCHANGED <<now, users, issued, inflight, draw, probe>>
    /\ UNCHANGED <<shopVars, routeVars>>

----------------------------------------------------------------------------
(* verify-otp and admin-verify-otp, one database call at a time            *)

\* the handler up to its first await on otp_codes: the fetch of the latest
\* unused row and the checks on it
VerifyFetch(p, net) ==
    /\ inflight[p].pc = "idle"
    /\ \E op \in {"verifyOTP", "adminVerifyOTP"}, userId \in {UserIdOf(1), AdminId},
          otp \in Codes, rf \in net :
        LET req == Req(op, None, None, userId, otp)
            got == IF rf.ok THEN OtpLatestUnused(otp_codes, userId) ELSE {}
            no(status, msg) == IF op = "verifyOTP" THEN Fail(status, msg) ELSE AdminFail(status, msg)
            end(r) == inflight' = [inflight EXCEPT ![p] = Flight("done", req, NoFlight.rec, r)]
        IN  IF ~rf.ok /\ op = "adminVerifyOTP"
            THEN end(AdminFail(500, "Failed to verify OTP"))
            ELSE IF got = {}
            THEN end(no(400, "No active OTP found. Please request a new one."))
            ELSE \E rec \in got :
                IF Expired(rec, now)
                THEN end(no(400, "OTP has expired. Please request a new one."))
                ELSE IF CodeMismatch(rec, otp)
                THEN end(no(400, "Incorrect OTP. Please try again."))
                ELSE inflight' = [inflight EXCEPT ![p] = Flight("fetched", req, rec, NoResp)]
    /\ UNCHANGED <<now, users, otp_codes, acceptCount, issued, lastReq, resp, calls, mail, twin, draw, probe>>
    /\ UNCHANGED <<shopVars, routeVars>>

\* update({ used: true }).eq("id", otpRecord.id): the row read earlier, whatever
\* has happened to it since; the error is logged, not acted on
VerifyMark(p, net) ==
    /\ inflight[p].pc = "fetched"
    /\ \E rm \in net :
          otp_codes' = IF rm.ok /\ inflight[p].rec \in DOMAIN otp_codes
                       THEN OtpMarkUsed(otp_codes, inflight[p].rec)
                       ELSE otp_codes
    /\ inflight' = [inflight EXCEPT ![p].pc = "marked"]
    /\ UNCHANGED <<now, users, acceptCount, issued, lastReq, resp, calls, mail, twin, draw, probe>>
    /\ UNCHANGED <<shopVars, routeVars>>

\* the token is signed and the row of the user or admin is loaded
VerifyLoad(p, net) ==
    /\ inflight[p].pc = "marked"
    /\ \E ru \in net :
        LET req == inflight[p].req
            uid == req.userId
            found == IF ru.ok THEN AdminById(admin_users, uid) ELSE {}
            r == IF req.op = "verifyOTP"
                 THEN IF ~ru.ok \/ Cardinality(UsersById(users, uid)) # 1
                      THEN Fail(500, "Verified but could not load user data")
                      ELSE Response(200, "true", Null, Null, uid, UserToken(uid, now), None)
                 ELSE IF found = {}
                      THEN AdminFail(401, "Admin user not found")
                      ELSE LET a == CHOOSE x \in found : TRUE IN
                           Response(200, Null, Null, Null, NoId, AdminToken(a.id, a.email, now), a.email)
        IN  /\ inflight' = [inflight EXCEPT ![p].pc = "done", ![p].resp = r]
            /\ acceptCount' = IF r.token # NoToken THEN Accepted(uid) ELSE acceptCount
    /\ UNCHANGED <<now, users, otp_codes, issued, lastReq, resp, calls, mail, twin, draw, probe>>
    /\ UNCHANGED <<shopVars, routeVars>>

\* the response is sent and the process is free for another request
VerifyRespond(p) ==
    /\ inflight[p].pc = "done"
    /\ inflight' = [inflight EXCEPT ![p] = NoFlight]
    /\ UNCHANGED <<now, users, otp_codes, acceptCount, issued, lastReq, resp, calls, mail, twin, draw, probe>>
    /\ UNCHANGED <<shopVars, routeVars>>

----------------------------------------------------------------------------
(* Orders, payments and the catalog                                        *)

\* process.env.RAZORPAY_KEY_SECRET
RazorpayKeySecret == "rzp-secret"

\* crypto.createHmac("sha256", key).update(msg).digest("hex"), as a symbolic
\* digest: two digests are equal exactly when key and message are
Hmac(key, msg) == [alg |-> "sha256", key |-> key, msg |-> msg]
NoSig == [alg |-> Null, key |-> Null, msg |-> Null]

\* `${razorpay_order_id}|${razorpay_payment_id}`
PaymentBody(oid, pid) == oid \o "|" \o pid

\* a comparison that lets every signature through
SignatureMismatchNever(expectedSig, sig) == FALSE

\* expectedSig !== razorpay_signature
SignatureMismatch(expectedSig, sig) == expectedSig # sig

ProductIdOf(n) == "p" \o ToString(n)

ProductRow(id, stock) == [id |-> id, stock_qty |-> stock, live |-> TRUE]

\* a value sent for the column stock_qty: a number, or the query builder that
\* supabase.rpc("decrement", ...) returns
Number(n) == [kind |-> "number", n |-> n]
RpcBuilder == [kind |-> "builder", n |-> 0]

LiveProduct(tbl, id) == {i \in 1..Len(tbl) : tbl[i].id = id /\ tbl[i].live}

\* update({stock_qty: value}).eq("id", id): the numeric column takes a number
\* only; any other value is rejected by the database and no row changes
StockUpdate(tbl, id, value) ==
    IF value.kind = "number"
    THEN [i \in 1..Len(tbl) |->
            IF tbl[i].id = id /\ tbl[i].live THEN [tbl[i] EXCEPT !.stock_qty = value.n] ELSE tbl[i]]
    ELSE tbl

OrderRow(id, od, oid, pid) ==
    [id |-> id, user_id |-> od.userId, status |-> "confirmed", total_amount |-> od.totalAmount,
     razorpay_order_id |-> oid, razorpay_payment_id |-> pid]

ItemRow(orderId, item) ==
    [order_id |-> orderId, product_id |-> item.id, quantity |-> item.quantity,
     price_at_purchase |-> item.price]

PaymentRow(orderId, od) == [order_id |-> orderId, amount |-> od.totalAmount, status |-> "success"]

ShopResponse(status, error, orderId) == [status |-> status, error |-> error, orderId |-> orderId]
NoShopResp == ShopResponse(0, Null, 0)

NoOrderData == [present |-> FALSE, userId |-> NoId, items |-> <<>>, totalAmount |-> 0]
NoHeader == [prefix |-> "", token |-> NoToken]

ShopReq(op, auth, sig, oid, pid, od, id, value) ==
    [op |-> op, auth |-> auth, sig |-> sig, razorpay_order_id |-> oid,
     razorpay_payment_id |-> pid, orderData |-> od, id |-> id, value |-> value]
NoShopReq == ShopReq("none", NoHeader, NoSig, "", "", NoOrderData, "", "")

ShopIdle == shopReq = NoShopReq

ShopReply(req, r, log) ==
    /\ shopReq' = req
    /\ shopResp' = r
    /\ dbCalls' = log

\* the response is sent and the request is over
ShopDeliver ==
    /\ ~ShopIdle
    /\ ShopReply(NoShopReq, NoShopResp, <<>>)
    /\ UNCHANGED <<products, product_images, orders, order_items, payments, storage>>
    /\ UNCHANGED <<otpVars, routeVars>>

MaxOrders == 1
MaxItems == 2
MaxProducts == 2
MaxUploads == 1

ItemChoices ==
    { [id |-> ProductIdOf(1), quantity |-> 1, price |-> 5],
      [id |-> ProductIdOf(2), quantity |-> 2, price |-> 7] }
ItemLists == UNION {[1..n -> ItemChoices] : n \in 0..MaxItems}
OrderDatas ==
    {NoOrderData} \cup
    {[present |-> TRUE, userId |-> UserIdOf(1), items |-> l, totalAmount |-> 10] : l \in ItemLists}
GatewayOrderIds == {"undefined", "order_1"}
GatewayPaymentIds == {"pay_1"}
SignaturesFor(oid, pid) ==
    { Hmac(RazorpayKeySecret, PaymentBody(oid, pid)),
      Hmac("other-key", PaymentBody(oid, pid)),
      Hmac(RazorpayKeySecret, PaymentBody(pid, oid)),
      NoSig }

\* the order_items rows the loop of verifyPayment leaves: one per item whose
\* insert succeeded (the result of the insert is not read)
ItemsInserted(orderId, items, insOk) ==
    LET idx == {i \in 1..Len(items) : insOk[i]} IN
    [r \in {ItemRow(orderId, items[i]) : i \in idx} |->
        Cardinality({i \in idx : ItemRow(orderId, items[i]) = r})]

\* the stock updates of the loop, in order (the result is not read either)
RECURSIVE StockLoop(_, _, _, _)
StockLoop(tbl, items, updOk, i) ==
    IF i > Len(items) THEN tbl
    ELSE StockLoop(IF updOk[i] THEN StockUpdate(tbl, items[i].id, RpcBuilder) ELSE tbl,
                   items, updOk, i + 1)

LoopCalls(n) ==
    [k \in 1..(2 * n) |-> IF k % 2 = 1 THEN "order_items.insert" ELSE "products.update"]

\* POST /api/orders/verify-payment
verifyPayment(net) ==
    /\ ShopIdle
    /\ \E oid \in GatewayOrderIds, pid \in GatewayPaymentIds, od \in OrderDatas :
       \E sig \in SignaturesFor(oid, pid) :
        LET req == ShopReq("verifyPayment", NoHeader, sig, oid, pid, od, "", "")
            expectedSig == Hmac(RazorpayKeySecret, PaymentBody(oid, pid))
        IN  IF SignatureMismatch(expectedSig, sig)
            THEN /\ ShopReply(req, ShopResponse(400, "Payment verification failed", 0), <<>>)
                 /\ UNCHANGED <<orders, order_items, products, payments>>
            ELSE IF ~od.present
            THEN \* orderData.userId throws a TypeError before any query is sent
                 /\ ShopReply(req, ShopResponse(500, "TypeError", 0), <<>>)
                 /\ UNCHANGED <<orders, order_items, products, payments>>
            ELSE \E ro \in net :
                \* the orders table is capped at MaxOrders rows: past it the insert fails
                IF ~ro.ok \/ Len(orders) >= MaxOrders
                THEN /\ ShopReply(req, ShopResponse(500, "orderError", 0), <<"orders.insert">>)
                     /\ UNCHANGED <<orders, order_items, products, payments>>
                ELSE LET orderId == Len(orders) + 1
                         n == Len(od.items)
                     IN  \E insOk \in [1..n -> {r.ok : r \in net}],
                            updOk \in [1..n -> {r.ok : r \in net}],
                            rp \in net :
                             /\ orders' = Append(orders, OrderRow(orderId, od, oid, pid))
                             /\ order_items' = order_items (+) ItemsInserted(orderId, od.items, insOk)
                             /\ products' = StockLoop(products, od.items, updOk, 1)
                             /\ payments' = IF rp.ok
                                            THEN payments (+) SetToBag({PaymentRow(orderId, od)})
                                            ELSE payments
                             /\ ShopReply(req, ShopResponse(200, Null, orderId),
                                          <<"orders.insert">> \o LoopCalls(n) \o <<"payments.insert">>)
    /\ UNCHANGED <<product_images, storage>>
    /\ UNCHANGED <<otpVars, routeVars>>

----------------------------------------------------------------------------
(* The admin router: adminAuth, then the handler                           *)

\* jwt.verify(token, secret): the signature was made with secret and the
\* token has not expired
JwtVerify(token, secret, t) == token.secret = secret /\ t < token.exp

\* adminAuth without the check of payload.role
adminAuthNoRole(auth, t) ==
    IF auth.prefix # "Bearer " THEN "No admin token provided"
    ELSE IF ~JwtVerify(auth.token, EnvJwtSecret, t) THEN "Invalid or expired admin token"
    ELSE "next"

\* adminAuth: "next" when the handler may run, else the 401 message
adminAuth(auth, t) ==
    IF auth.prefix # "Bearer " THEN "No admin token provided"
    ELSE IF ~JwtVerify(auth.token, EnvJwtSecret, t) THEN "Invalid or expired admin token"
    ELSE IF auth.token.role # "admin" THEN "Invalid or expired admin token"
    ELSE "next"

\* the tokens a client may present: a current admin token, an expired one, a
\* customer token, an admin token signed with another secret, and garbage
ClientTokens ==
    { AdminToken(AdminId, AdminEmail, 0),
      AdminToken(AdminId, AdminEmail, 0 - ADMIN_JWT_TTL),
      UserToken(UserIdOf(1), 0),
      [AdminToken(AdminId, AdminEmail, 0) EXCEPT !.secret = "forged"],
      NoToken }
AuthHeaders ==
    {NoHeader} \cup {[prefix |-> "Bearer ", token |-> k] : k \in ClientTokens}
             \cup {[prefix |-> p, token |-> AdminToken(AdminId, AdminEmail, 0)] : p \in {"bearer ", "Basic "}}

AdminReq(op, auth, id, value) == ShopReq(op, auth, NoSig, "", "", NoOrderData, id, value)

\* a request the middleware turns away: 401, and no handler runs
Denied(req) ==
    /\ ShopReply(req, ShopResponse(401, adminAuth(req.auth, now), 0), <<>>)
    /\ UNCHANGED <<products, product_images, orders, order_items, payments, storage>>

ProductParams == {ProductIdOf(1), ProductIdOf(2), "zz"}
StockValues == {"0", "2"}
StockOf(v) == IF v = "0" THEN 0 ELSE 2
ImageInputs == {"absent", "none", "img"}
StatusInputs == {"shipped", "cancelled", "bogus"}
validStatuses == {"pending", "confirmed", "shipped", "delivered", "cancelled"}
OrderParams == {"1", "9"}
OrderIdOf(v) == IF v = "1" THEN 1 ELSE 9

\* GET /stats, /categories, /products, /orders: one or two selects, no write
adminRead(net, op, queries) ==
    /\ ShopIdle
    /\ \E auth \in AuthHeaders :
        LET req == AdminReq(op, auth, "", "") IN
        IF adminAuth(auth, now) # "next" THEN Denied(req)
        ELSE /\ \E r \in net :
                  \* /stats reads no error; the others answer 500 on one
                  ShopReply(req,
                      IF r.ok \/ op = "stats" THEN ShopResponse(200, Null, Len(orders))
                      ELSE ShopResponse(500, "error.message", 0),
                      queries)
             /\ UNCHANGED <<products, product_images, orders, order_items, payments, storage>>
    /\ UNCHANGED <<otpVars, routeVars>>

adminStats(net) == adminRead(net, "stats", <<"orders.select", "products.select">>)
adminCategories(net) == adminRead(net, "categories", <<"categories.select">>)
adminProducts(net) == adminRead(net, "products", <<"products.select">>)
adminOrders(net) == adminRead(net, "orders", <<"orders.select">>)

\* POST /products
adminCreateProduct(net) ==
    /\ ShopIdle
    /\ \E auth \in AuthHeaders, stock \in StockValues, images \in ImageInputs :
        LET req == AdminReq("createProduct", auth, images, stock) IN
        IF adminAuth(auth, now) # "next" THEN Denied(req)
        ELSE \E r \in net, ri \in net :
            LET id == ProductIdOf(Len(products) + 1) IN
            \* the products table is capped at MaxProducts rows: past it the insert fails
            IF ~r.ok \/ Len(products) >= MaxProducts
            THEN /\ ShopReply(req, ShopResponse(500, "productError.message", 0), <<"products.insert">>)
                 /\ UNCHANGED <<products, product_images>>
            ELSE /\ products' = Append(products, ProductRow(id, StockOf(stock)))
                 /\ IF images = "img"
                    THEN /\ product_images' = IF ri.ok
                                              THEN product_images \cup {[product_id |-> id, url |-> images]}
                                              ELSE product_images
                         /\ ShopReply(req, ShopResponse(201, Null, 0),
                                      <<"products.insert", "product_images.insert">>)
                    ELSE /\ UNCHANGED product_images
                         /\ ShopReply(req, ShopResponse(201, Null, 0), <<"products.insert">>)
    /\ UNCHANGED <<orders, order_items, payments, storage>>
    /\ UNCHANGED <<otpVars, routeVars>>

\* PUT /products/:id
adminUpdateProduct(net) ==
    /\ ShopIdle
    /\ \E auth \in AuthHeaders, id \in ProductParams, stock \in StockValues, images \in ImageInputs :
        LET req == AdminReq("updateProduct", auth, id, stock) IN
        IF adminAuth(auth, now) # "next" THEN Denied(req)
        ELSE \E r \in net, rd \in net, ri \in net :
            \* .single(): an update that returns no row is an error
            IF ~r.ok \/ LiveProduct(products, id) = {}
            THEN /\ ShopReply(req, ShopResponse(500, "productError.message", 0), <<"products.update">>)
                 /\ UNCHANGED <<products, product_images>>
            ELSE LET kept == IF rd.ok THEN {x \in product_images : x.product_id # id}
                             ELSE product_images
                 IN  /\ products' = StockUpdate(products, id, Number(StockOf(stock)))
                     /\ IF images = "absent"
                        THEN /\ UNCHANGED product_images
                             /\ ShopReply(req, ShopResponse(200, Null, 0), <<"products.update">>)
                        ELSE IF images = "none"
                        THEN /\ product_images' = kept
                             /\ ShopReply(req, ShopResponse(200, Null, 0),
                                          <<"products.update", "product_images.delete">>)
                        ELSE /\ product_images' = IF ri.ok
                                                  THEN kept \cup {[product_id |-> id, url |-> images]}
                                                  ELSE kept
                             /\ ShopReply(req, ShopResponse(200, Null, 0),
                                          <<"products.update", "product_images.delete",
                                            "product_images.insert">>)
    /\ UNCHANGED <<orders, order_items, payments, storage>>
    /\ UNCHANGED <<otpVars, routeVars>>

\* DELETE /products/:id
adminDeleteProduct(net) ==
    /\ ShopIdle
    /\ \E auth \in AuthHeaders, id \in ProductParams :
        LET req == AdminReq("deleteProduct", auth, id, "") IN
        IF adminAuth(auth, now) # "next" THEN Denied(req)
        ELSE \E rd \in net, r \in net :
            /\ product_images' = IF rd.ok THEN {x \in product_images : x.product_id # id}
                                 ELSE product_images
            /\ products' = IF r.ok
                           THEN [i \in 1..Len(products) |->
                                    IF products[i].id = id THEN [products[i] EXCEPT !.live = FALSE]
                                    ELSE products[i]]
                           ELSE products
            /\ ShopReply(req,
                         IF r.ok THEN ShopResponse(200, Null, 0) ELSE ShopResponse(500, "error.message", 0),
                         <<"product_images.delete", "products.delete">>)
    /\ UNCHANGED <<orders, order_items, payments, storage>>
    /\ UNCHANGED <<otpVars, routeVars>>

\* PUT /products/:id/stock
adminSetStock(net) ==
    /\ ShopIdle
    /\ \E auth \in AuthHeaders, id \in ProductParams, stock \in StockValues :
        LET req == AdminReq("setStock", auth, id, stock) IN
        IF adminAuth(auth, now) # "next" THEN Denied(req)
        ELSE \E r \in net :
            IF ~r.ok \/ LiveProduct(products, id) = {}
            THEN /\ ShopReply(req, ShopResponse(500, "error.message", 0), <<"products.update">>)
                 /\ UNCHANGED products
            ELSE /\ products' = StockUpdate(products, id, Number(StockOf(stock)))
                 /\ ShopReply(req, ShopResponse(200, Null, 0), <<"products.update">>)
    /\ UNCHANGED <<product_images, orders, order_items, payments, storage>>
    /\ UNCHANGED <<otpVars, routeVars>>

\* POST /upload-image
adminUploadImage(net) ==
    /\ ShopIdle
    /\ \E auth \in AuthHeaders, file \in {"", "a.png"} :
        LET req == AdminReq("uploadImage", auth, "", file) IN
        IF adminAuth(auth, now) # "next" THEN Denied(req)
        ELSE /\ UNCHANGED <<products, product_images, orders, order_items, payments>>
             /\ IF file = ""
                THEN /\ ShopReply(req, ShopResponse(400, "No file provided", 0), <<>>)
                     /\ UNCHANGED storage
                ELSE \E r \in net :
                    \* the bucket is capped at MaxUploads objects: past it the upload fails
                    IF ~r.ok \/ storage >= MaxUploads
                    THEN /\ ShopReply(req, ShopResponse(500, "error.message", 0), <<"storage.upload">>)
                         /\ UNCHANGED storage
                    ELSE /\ storage' = storage + 1
                         /\ ShopReply(req, ShopResponse(200, Null, 0), <<"storage.upload">>)
    /\ UNCHANGED <<otpVars, routeVars>>

\* PUT /orders/:id/status
adminSetOrderStatus(net) ==
    /\ ShopIdle
    /\ \E auth \in AuthHeaders, id \in OrderParams, status \in StatusInputs :
        LET req == AdminReq("setOrderStatus", auth, id, status) IN
        IF adminAuth(auth, now) # "next" THEN Denied(req)
        ELSE /\ UNCHANGED <<products, product_images, order_items, payments, storage>>
             /\ IF status \notin validStatuses
                THEN /\ ShopReply(req, ShopResponse(400, "Invalid status", 0), <<>>)
                     /\ UNCHANGED orders
                ELSE \E r \in net :
                    IF ~r.ok \/ OrderIdOf(id) \notin DOMAIN orders
                    THEN /\ ShopReply(req, ShopResponse(500, "error.message", 0), <<"orders.update">>)
                         /\ UNCHANGED orders
                    ELSE /\ orders' = [orders EXCEPT ![OrderIdOf(id)].status = status]
                         /\ ShopReply(req, ShopResponse(200, Null, OrderIdOf(id)), <<"orders.update">>)
    /\ UNCHANGED <<otpVars, routeVars>>

----------------------------------------------------------------------------
(* The Express application: middleware, mounted routers, 404 handler       *)

\* bounds of the requests sent to the application
MaxTail == 3

Methods == {"GET", "POST", "PUT", "DELETE", "OPTIONS", "HEAD"}

\* "json": no body, or a body that JSON.parse accepts
Bodies == {"json", "malformed"}

MountPoints ==
    {<<>>, <<"health">>, <<"api">>, <<"api", "inventory">>, <<"api", "auth">>,
     <<"api", "orders">>, <<"api", "contact">>, <<"api", "admin">>, <<"API", "admin">>}

TailSegs == {"featured", "products", "orders", "stock", "status", "stats",
             "send-otp", "verify-payment", "x"}

Tails == UNION {[1..n -> TailSegs] : n \in 0..MaxTail}

RouteReq(method, path, body) == [method |-> method, path |-> path, body |-> body]

NoRouteReq == RouteReq("", <<>>, "")

\* by: the layer that ended the response; status 0 and message "" stand for
\* the status and body chosen by a route's own handler
RouteRes(by, status, message) == [by |-> by, status |-> status, message |-> message]

NoRouteRes == RouteRes("none", 0, "")

\* a path parameter such as :category, :slug, :id
Param == ":"

Route(method, pattern, handler) == [method |-> method, pattern |-> pattern, handler |-> handler]

\* routing is case-insensitive (Router option caseSensitive is off)
LowerSeg(seg) == IF seg = "API" THEN "api" ELSE seg


\* non-strict routing: the path is its sequence of segments
PathMatch(pattern, path) ==
    /\ Len(pattern) = Len(path)
    /\ \A i \in 1..Len(pattern) : pattern[i] = Param \/ pattern[i] = LowerSeg(path[i])

\* a HEAD request is served by the GET handler of a route
MethodMatch(routeMethod, method) ==
    routeMethod = method \/ (method = "HEAD" /\ routeMethod = "GET")

inventoryRoutes ==
    << Route("GET", <<>>, "getAllProducts"),
       Route("GET", <<"featured">>, "getFeaturedProducts"),
       Route("GET", <<Param>>, "getByCategory"),
       Route("GET", <<Param, Param>>, "getProductBySlug") >>

authRoutes ==
    << Route("POST", <<"send-otp">>, "sendOTP"),
       Route("POST", <<"verify-otp">>, "verifyOTP"),
       Route("POST", <<"admin-send-otp">>, "adminSendOTP"),
       Route("POST", <<"admin-verify-otp">>, "adminVerifyOTP") >>

orderRoutes ==
    << Route("POST", <<"create-razorpay-order">>, "createRazorpayOrder"),
       Route("POST", <<"verify-payment">>, "verifyPayment") >>

contactRoutes == << Route("POST", <<>>, "contact") >>

adminRoutes ==
    << Route("GET", <<"stats">>, "admin.stats"),
       Route("GET", <<"categories">>, "admin.categories"),
       Route("GET", <<"products">>, "admin.products"),
       Route("POST", <<"products">>, "admin.createProduct"),
       Route("PUT", <<"products", Param>>, "admin.updateProduct"),
       Route("DELETE", <<"products", Param>>, "admin.deleteProduct"),
       Route("PUT", <<"products", Param, "stock">>, "admin.setStock"),
       Route("POST", <<"upload-image">>, "admin.uploadImage"),
       Route("GET", <<"orders">>, "admin.orders"),
       Route("PUT", <<"orders", Param, "status">>, "admin.setOrderStatus") >>

healthRoute == << Route("GET", <<"health">>, "health") >>

\* the first route of the router that matches, or "next"
RECURSIVE RouterHandle(_, _, _, _)
RouterHandle(routes, i, method, path) ==
    IF i > Len(routes) THEN "next"
    ELSE IF MethodMatch(routes[i].method, method) /\ PathMatch(routes[i].pattern, path)
         THEN routes[i].handler
         ELSE RouterHandle(routes, i + 1, method, path)

HasPrefix(prefix, path) ==
    /\ Len(path) >= Len(prefix)
    /\ \A i \in 1..Len(prefix) : LowerSeg(path[i]) = prefix[i]

Layer(kind, prefix, routes) == [kind |-> kind, prefix |-> prefix, routes |-> routes]

\* the stack with the 404 handler ahead of the admin router
AppStackNotFoundEarly ==
    << Layer("cors", <<>>, <<>>),
       Layer("options", <<>>, <<>>),
       Layer("helmet", <<>>, <<>>),
       Layer("morgan", <<>>, <<>>),
       Layer("json", <<>>, <<>>),
       Layer("mount", <<"api", "inventory">>, inventoryRoutes),
       Layer("mount", <<"api", "auth">>, authRoutes),
       Layer("mount", <<"api", "orders">>, orderRoutes),
       Layer("mount", <<"api", "contact">>, contactRoutes),
       Layer("notFound", <<>>, <<>>),
       Layer("mount", <<"api", "admin">>, adminRoutes),
       Layer("mount", <<>>, healthRoute) >>

\* app.use / app.options / app.get in the order of registration
AppStack ==
    << Layer("cors", <<>>, <<>>),
       Layer("options", <<>>, <<>>),
       Layer("helmet", <<>>, <<>>),
       Layer("morgan", <<>>, <<>>),
       Layer("json", <<>>, <<>>),
       Layer("mount", <<"api", "inventory">>, inventoryRoutes),
       Layer("mount", <<"api", "auth">>, authRoutes),
       Layer("mount", <<"api", "orders">>, orderRoutes),
       Layer("mount", <<"api", "contact">>, contactRoutes),
       Layer("mount", <<"api", "admin">>, adminRoutes),
       Layer("mount", <<>>, healthRoute),
       Layer("notFound", <<>>, <<>>) >>

\* cors with preflightContinue: false ends an OPTIONS request with
\* optionsSuccessStatus
Preflight == RouteRes("cors", 204, "")

\* express.json() hands a body it cannot parse to the error handler
BadJson == RouteRes("express.json", 400, "")

\* res.status(404).json({success: false, error: {message: "Route not found"}})
NotFound == RouteRes("notFound", 404, "Route not found")

\* past the end of the stack Express answers with its own 404 page
FinalHandler == RouteRes("finalhandler", 404, "")

RECURSIVE AppHandle(_, _, _)
AppHandle(stack, i, req) ==
    IF i > Len(stack) THEN FinalHandler
    ELSE LET layer == stack[i]
             rest == AppHandle(stack, i + 1, req)
         IN  IF layer.kind \in {"cors", "options"}
             THEN IF req.method = "OPTIONS" THEN Preflight ELSE rest
             ELSE IF layer.kind = "json"
             THEN IF req.body = "malformed" THEN BadJson ELSE rest
             ELSE IF layer.kind = "mount"
             THEN IF HasPrefix(layer.prefix, req.path)
                  THEN LET h == RouterHandle(layer.routes, 1, req.method,
                                             SubSeq(req.path, Len(layer.prefix) + 1, Len(req.path)))
                       IN  IF h = "next" THEN rest ELSE RouteRes(h, 0, "")
                  ELSE rest
             ELSE IF layer.kind = "notFound"
             THEN NotFound
             ELSE rest

RouteIdle == routeReq = NoRouteReq

\* one request through the application
app ==
    /\ RouteIdle
    /\ \E method \in Methods, prefix \in MountPoints, tail \in Tails, body \in Bodies :
          LET req == RouteReq(method, prefix \o tail, body)
          IN  /\ routeReq' = req
              /\ routeRes' = AppHandle(AppStack, 1, req)
    /\ UNCHANGED <<otpVars, shopVars>>

RouteDeliver ==
    /\ ~RouteIdle
    /\ routeReq' = NoRouteReq
    /\ routeRes' = NoRouteRes
    /\ UNCHANGED <<otpVars, shopVars>>

InitRoute ==
    /\ routeReq = NoRouteReq
    /\ routeRes = NoRouteRes

----------------------------------------------------------------------------
(* Initial state and specifications                                        *)

InitShop ==
    /\ products = <<ProductRow(ProductIdOf(1), 2)>>
    /\ product_images = {}
    /\ orders = <<>>
    /\ order_items = EmptyBag
    /\ payments = EmptyBag
    /\ storage = 0
    /\ shopReq = NoShopReq
    /\ shopResp = NoShopResp
    /\ dbCalls = <<>>


Init == InitOtp /\ InitShop /\ InitRoute

----------------------------------------------------------------------------
(* The OTP service on a network without transient faults, and with them    *)

Next ==
    \/ Tick
    \/ Deliver
    \/ sendOTP(StableNet)
    \/ verifyOTP(StableNet)
    \/ adminSendOTP(StableNet)
    \/ adminVerifyOTP(StableNet)

Spec == Init /\ [][Next]_vars

NextRetry ==
    \/ Deliver
    \/ sendOTP(FlakyNet)
    \/ verifyOTP(FlakyNet)
    \/ adminSendOTP(FlakyNet)
    \/ adminVerifyOTP(FlakyNet)

SpecRetry == Init /\ [][NextRetry]_vars

\* the OTP service when no database call fails
NextOk ==
    \/ Tick
    \/ Deliver
    \/ sendOTP(PerfectNet)
    \/ verifyOTP(PerfectNet)
    \/ adminSendOTP(PerfectNet)
    \/ adminVerifyOTP(PerfectNet)

SpecOk == Init /\ [][NextOk]_vars

\* the OTP service once a first code, CodeA, has been stored for the customer
\* and for the admin
InitReplace ==
    /\ InitShop
    /\ InitRoute
    /\ now = 0
    /\ users = <<UserRow(UserIdOf(1), CustEmail, None)>>
    /\ otp_codes = SetToBag({OtpRow(UserIdOf(1), CodeA, otpExpiresAt(0)),
                             OtpRow(AdminId, CodeA, ADMIN_OTP_TTL)})
    /\ acceptCount = [u \in OtpOwners |-> 0]
    /\ issued = [u \in OtpOwners |->
                    IF u \in {UserIdOf(1), AdminId} THEN [code |-> CodeA, at |-> 0] ELSE NotIssued]
    /\ inflight = [p \in Procs |-> NoFlight]
    /\ draw = None
    /\ probe = NoProbe
    /\ lastReq = NoReq
    /\ resp = NoResp
    /\ calls = <<>>
    /\ mail = "none"
    /\ twin = NoResp

SpecReplace == InitReplace /\ [][Next]_vars

\* the OTP endpoints on a database that holds a code for the customer and one
\* for the admin, with one request set aside to compare the later ones with
InitProbe ==
    /\ InitShop /\ InitRoute
    /\ now = 0
    /\ users = <<UserRow(UserIdOf(1), CustEmail, None)>>
    /\ otp_codes = SetToBag({OtpRow(UserIdOf(1), CodeA, otpExpiresAt(0))})
    /\ acceptCount = [u \in OtpOwners |-> 0]
    /\ issued = [u \in OtpOwners |-> IF u = UserIdOf(1) THEN [code |-> CodeA, at |-> 0] ELSE NotIssued]
    /\ inflight = [p \in Procs |-> NoFlight]
    /\ draw = None
    /\ probe = [NoProbe EXCEPT !.pc = "armed", !.db = <<users, otp_codes>>, !.served = acceptCount]
    /\ lastReq = NoReq
    /\ resp = NoResp
    /\ calls = <<>>
    /\ mail = "none"
    /\ twin = NoResp

NextProbe ==
    \/ Tick
    \/ Record
    \/ DeliverNoted
    \/ sendOTP(StableNet)
    \/ verifyOTP(StableNet)

SpecProbe == InitProbe /\ [][NextProbe]_vars

\* two verify requests side by side, on a database that holds a code for the
\* customer and one for the admin and answers every query
NextConc ==
    \/ \E p \in Procs : VerifyFetch(p, PerfectNet)
    \/ \E p \in Procs : VerifyMark(p, PerfectNet)
    \/ \E p \in Procs : VerifyLoad(p, PerfectNet)
    \/ \E p \in Procs : VerifyRespond(p)

SpecConc == InitReplace /\ [][NextConc]_vars

\* payments by customers
NextPay ==
    \/ ShopDeliver
    \/ verifyPayment(StableNet)

SpecPay == Init /\ [][NextPay]_vars

\* the admin router, on a database that holds one paid order
PaidOrder == [present |-> TRUE, userId |-> UserIdOf(1),
              items |-> <<[id |-> ProductIdOf(1), quantity |-> 1, price |-> 5]>>, totalAmount |-> 10]

InitAdmin ==
    /\ InitOtp
    /\ InitRoute
    /\ products = <<ProductRow(ProductIdOf(1), 2)>>
    /\ product_images = {}
    /\ orders = <<OrderRow(1, PaidOrder, "order_1", "pay_1")>>
    /\ order_items = SetToBag({ItemRow(1, PaidOrder.items[1])})
    /\ payments = SetToBag({PaymentRow(1, PaidOrder)})
    /\ storage = 0
    /\ shopReq = NoShopReq
    /\ shopResp = NoShopResp
    /\ dbCalls = <<>>

NextAdmin ==
    \/ ShopDeliver
    \/ adminStats(StableNet)
    \/ adminCategories(StableNet)
    \/ adminProducts(StableNet)
    \/ adminOrders(StableNet)
    \/ adminCreateProduct(StableNet)
    \/ adminUpdateProduct(StableNet)
    \/ adminDeleteProduct(StableNet)
    \/ adminSetStock(StableNet)
    \/ adminUploadImage(StableNet)
    \/ adminSetOrderStatus(StableNet)

SpecAdmin == InitAdmin /\ [][NextAdmin]_vars

\* requests through the middleware stack and the routers
NextRoute ==
    \/ RouteDeliver
    \/ app

SpecRoute == Init /\ [][NextRoute]_vars

----------------------------------------------------------------------------
(* Claims about the OTP lifecycle                                          *)

VerifyOps == {"verifyOTP", "adminVerifyOTP"}


\* the user a verify request is about: userId when given, else the users row
\* its email names
TargetOf(req) ==
    IF req.userId # NoId THEN req.userId
    ELSE IF Cardinality(UsersByEmail(users, req.email)) = 1
    THEN users[CHOOSE i \in UsersByEmail(users, req.email) : TRUE].id
    ELSE NoId

\* C1: once a verify request has accepted a code for a user and issued a
\* token, no later verify request for that user with the same code is
\* accepted unless a new OTP was stored in between: between two stored OTPs
\* of a user, at most one verify request is answered with a token.
C1_SingleUse == \A u \in OtpOwners : acceptCount[u] <= 1

ExpiredFor(u, t) ==
    \E r \in DOMAIN otp_codes :
        /\ r.user_id = u /\ ~r.used /\ r.expires_at < t
        /\ \A q \in DOMAIN otp_codes : q.user_id = u /\ ~q.used => q.expires_at <= r.expires_at

\* C3 (every response 400): a verify request for a user whose latest unused row has
\* expired is answered 400 and gets no token, whatever code it submits.
C3_Expired400 ==
    [][lastReq'.op \in VerifyOps /\ ExpiredFor(TargetOf(lastReq'), now)
          => resp'.status = 400 /\ resp'.token = NoToken]_vars

\* C3 (no token): a verify request for a user whose latest unused row has
\* expired never gets a token, whatever code it submits; it is answered 400,
\* except that adminVerifyOTP answers 500 when its fetch of the OTP row fails.
C3_ExpiredNoToken ==
    [][lastReq'.op \in VerifyOps /\ ExpiredFor(TargetOf(lastReq'), now)
          => /\ resp'.token = NoToken
             /\ \/ resp'.status = 400
                \/ /\ lastReq'.op = "adminVerifyOTP"
                   /\ resp'.status = 500
                   /\ resp'.error = "Failed to verify OTP"]_vars

\* a request with the stored code is refused because the row has expired
C3_Witness ==
    /\ lastReq.op \in VerifyOps
    /\ resp.status = 400
    /\ resp.error = "OTP has expired. Please request a new one."
    /\ \E r \in DOMAIN otp_codes :
          r.user_id = TargetOf(lastReq) /\ ~r.used /\ r.expires_at < now /\ r.code = Trim(lastReq.otp)

\* C7: the response of adminSendOTP to a non-blank email (status, userId,
\* message) is the same whether or not the email is an active admin's.
C7_NoEnumeration ==
    lastReq.op = "adminSendOTP" /\ twin # NoResp
        => /\ resp.status = twin.status
           /\ resp.userId = twin.userId
           /\ resp.message = twin.message

\* C8: when the email provider returns an error result after the OTP row was
\* stored, sendOTP still answers success.
C8_EmailErrorStillSuccess ==
    lastReq.op = "sendOTP" /\ mail = "error"
        => resp.status = 200 /\ resp.success = "true"

\* C9 (one attempt): every database query of an OTP request is attempted exactly
\* once.
C9_AttemptedOnce == \A i \in DOMAIN calls : calls[i].n = 1

\* C9 (bounded retry): the handler issues each query once and never re-issues it;
\* the fetch wrapper under the client attempts it at most `retries` times.
C9_BoundedRetry ==
    /\ \A i \in DOMAIN calls : calls[i].n \in 1..retries
    /\ \A i, j \in DOMAIN calls : calls[i].q = calls[j].q => i = j

\* a query that went through all its attempts
C9_Witness ==
    lastReq.op = "verifyOTP" /\ \E i \in DOMAIN calls : calls[i].q = "otp_codes.update" /\ calls[i].n = retries

----------------------------------------------------------------------------
(* Claims about the admin router and the payments                          *)

AdminOps ==
    {"stats", "categories", "products", "orders", "createProduct", "updateProduct",
     "deleteProduct", "setStock", "uploadImage", "setOrderStatus"}

\* 'Bearer <token>' with a token signed with the JWT secret, not expired,
\* carrying role = 'admin'
Authorized(auth, t) ==
    /\ auth.prefix = "Bearer "
    /\ auth.token.secret = EnvJwtSecret
    /\ t < auth.token.exp
    /\ auth.token.role = "admin"

\* C4: a handler of the admin router runs, and touches the database, only
\* for a request with an Authorization header 'Bearer <token>' whose token
\* verifies, is not expired and carries role = 'admin'; every other request
\* gets 401 and changes no database state.
C4_AdminOnly ==
    [][shopReq'.op \in AdminOps /\ ~Authorized(shopReq'.auth, now)
          => /\ shopResp'.status = 401
             /\ dbCalls' = <<>>
             /\ UNCHANGED <<products, product_images, orders, order_items, payments, storage>>]_vars

\* a customer's token (valid signature, not expired, no role) is turned away
C4_Witness ==
    /\ shopReq.op = "setStock"
    /\ shopReq.auth = [prefix |-> "Bearer ", token |-> UserToken(UserIdOf(1), 0)]
    /\ shopResp.status = 401
    /\ dbCalls = <<>>

\* C5: verifyPayment writes to orders, order_items, products or payments only
\* when razorpay_signature is the HMAC-SHA256 of 'order_id|payment_id' under
\* the key secret; on a mismatch it answers 400 'Payment verification failed'
\* and leaves the four tables unchanged.
C5_SignatureGate ==
    [][shopReq'.op = "verifyPayment"
       /\ shopReq'.sig # Hmac(RazorpayKeySecret,
                              shopReq'.razorpay_order_id \o "|" \o shopReq'.razorpay_payment_id)
          => /\ shopResp'.status = 400
             /\ shopResp'.error = "Payment verification failed"
             /\ UNCHANGED <<orders, order_items, products, payments>>]_vars

\* a signature made with another key is refused after an order was taken
C5_Witness ==
    /\ shopReq.op = "verifyPayment"
    /\ shopReq.sig = Hmac("other-key", PaymentBody(shopReq.razorpay_order_id, shopReq.razorpay_payment_id))
    /\ shopResp.status = 400
    /\ Len(orders) >= 1

\* total quantity the items ask of product id
RECURSIVE Ordered(_, _)
Ordered(items, id) ==
    IF items = <<>> THEN 0
    ELSE (IF Head(items).id = id THEN Head(items).quantity ELSE 0) + Ordered(Tail(items), id)

\* C6: whenever verifyPayment answers success for items I, the database holds
\* the new orders row with status 'confirmed', one new order_items row per
\* element of I, a payments row with status 'success' for the order, and
\* every item's product has stock_qty lower than before by the quantity.
C6_OrderRecorded ==
    [][shopReq'.op = "verifyPayment" /\ shopResp'.status = 200
          => LET items == shopReq'.orderData.items
                 id == shopResp'.orderId
             IN  /\ Len(orders') = Len(orders) + 1
                 /\ id = Len(orders')
                 /\ orders'[id].status = "confirmed"
                 /\ \A i \in 1..Len(items) :
                       CopiesIn(ItemRow(id, items[i]), order_items')
                         = Cardinality({j \in 1..Len(items) : items[j] = items[i]})
                 /\ \E pay \in DOMAIN payments' : pay.order_id = id /\ pay.status = "success"
                 /\ \A k \in 1..Len(products) :
                       products[k].live =>
                         products'[k].stock_qty = products[k].stock_qty - Ordered(items, products[k].id)]_vars

----------------------------------------------------------------------------
(* Claims about routing                                                    *)

\* the routes of the mounted routers and /health, with their full paths
RouteTable ==
    { <<"GET", <<"api", "inventory">>>>,
      <<"GET", <<"api", "inventory", "featured">>>>,
      <<"GET", <<"api", "inventory", ":">>>>,
      <<"GET", <<"api", "inventory", ":", ":">>>>,
      <<"POST", <<"api", "auth", "send-otp">>>>,
      <<"POST", <<"api", "auth", "verify-otp">>>>,
      <<"POST", <<"api", "auth", "admin-send-otp">>>>,
      <<"POST", <<"api", "auth", "admin-verify-otp">>>>,
      <<"POST", <<"api", "orders", "create-razorpay-order">>>>,
      <<"POST", <<"api", "orders", "verify-payment">>>>,
      <<"POST", <<"api", "contact">>>>,
      <<"GET", <<"api", "admin", "stats">>>>,
      <<"GET", <<"api", "admin", "categories">>>>,
      <<"GET", <<"api", "admin", "products">>>>,
      <<"POST", <<"api", "admin", "products">>>>,
      <<"PUT", <<"api", "admin", "products", ":">>>>,
      <<"DELETE", <<"api", "admin", "products", ":">>>>,
      <<"PUT", <<"api", "admin", "products", ":", "stock">>>>,
      <<"POST", <<"api", "admin", "upload-image">>>>,
      <<"GET", <<"api", "admin", "orders">>>>,
      <<"PUT", <<"api", "admin", "orders", ":", "status">>>>,
      <<"GET", <<"health">>>> }

\* method and path of the request match a mounted route (letter case of the
\* path ignored, HEAD served by GET routes)
Matched(req) ==
    \E r \in RouteTable :
        /\ r[1] = req.method \/ (r[1] = "GET" /\ req.method = "HEAD")
        /\ Len(r[2]) = Len(req.path)
        /\ \A i \in 1..Len(r[2]) :
              \/ r[2][i] = ":"
              \/ r[2][i] = req.path[i]
              \/ (r[2][i] = "api" /\ req.path[i] = "API")

AnsweredNotFound ==
    /\ routeRes.by = "notFound"
    /\ routeRes.status = 404
    /\ routeRes.message = "Route not found"

\* C10 (every request): every request that matches no mounted route is answered
\* 404 'Route not found', and a request that matches one is never answered
\* by the 404 handler.
C10_NotFoundLast ==
    routeReq # NoRouteReq =>
        IF Matched(routeReq) THEN routeRes.by # "notFound" ELSE AnsweredNotFound

\* C10: a request that is not a CORS preflight and whose body parses is
\* answered 404 'Route not found' when it matches no mounted route, and is
\* never answered by the 404 handler when it matches one; an OPTIONS request
\* is answered 204 by cors on every path, and an unparsable body 400.
C10_NotFoundLastPastMiddleware ==
    routeReq # NoRouteReq =>
        IF routeReq.method = "OPTIONS"
        THEN routeRes.by = "cors" /\ routeRes.status = 204
        ELSE IF routeReq.body = "malformed"
        THEN routeRes.by = "express.json" /\ routeRes.status = 400
        ELSE IF Matched(routeReq) THEN routeRes.by \notin {"notFound", "finalhandler"}
        ELSE AnsweredNotFound

\* an unmatched path below a mount point falls through to the 404 handler
C10_Witness ==
    /\ routeReq.method = "GET"
    /\ routeReq.body = "json"
    /\ routeReq.path = <<"api", "admin", "products", "x">>
    /\ AnsweredNotFound

----------------------------------------------------------------------------
(* Claims about the life of one code                                       *)

\* the request submits the code of the unused row of its user, in time, the
\* update that marks the row used was sent, and the row is still unused
MarkFailed(req, before, after, log, t) ==
    /\ req.op \in VerifyOps
    /\ \E i \in DOMAIN log : log[i].q = "otp_codes.update"
    /\ after = before
    /\ \E r \in DOMAIN before :
          /\ r.user_id = TargetOf(req) /\ ~r.used
          /\ ~(r.expires_at < t)
          /\ Trim(r.code) = Trim(req.otp)

\* C12 (always a token): when the correct, unexpired code is submitted and
\* the update setting used = true fails, verifyOTP and adminVerifyOTP still
\* return a token.
C12_MarkFailureToken ==
    [][MarkFailed(lastReq', otp_codes, otp_codes', calls', now)
          => resp'.status = 200 /\ resp'.token # NoToken]_vars

\* C12 (non-fatal): when the correct, unexpired code is submitted and the
\* update setting used = true fails, the handler goes on to its next query
\* and the failed update decides nothing: verifyOTP returns a token, or 500
\* 'Verified but could not load user data' when the users row is not loaded;
\* adminVerifyOTP returns a token, or 401 'Admin user not found' when the
\* admin_users row is not loaded.
C12_MarkFailureNonFatal ==
    [][MarkFailed(lastReq', otp_codes, otp_codes', calls', now)
          => /\ calls'[Len(calls')].q \in {"users.select(id)", "admin_users.select"}
             /\ \/ resp'.status = 200 /\ resp'.token # NoToken
                \/ /\ lastReq'.op = "verifyOTP"
                   /\ resp'.status = 500
                   /\ resp'.error = "Verified but could not load user data"
                \/ /\ lastReq'.op = "adminVerifyOTP"
                   /\ resp'.status = 401
                   /\ resp'.error = "Admin user not found"]_vars

\* a token is returned while the row of the code is still unused
C12_Witness ==
    /\ lastReq.op = "verifyOTP"
    /\ resp.status = 200 /\ resp.token # NoToken
    /\ \E i \in DOMAIN calls : calls[i].q = "otp_codes.update"
    /\ \E r \in DOMAIN otp_codes :
          r.user_id = resp.userId /\ ~r.used /\ Trim(r.code) = Trim(lastReq.otp)

\* C13: after sendOTP or adminSendOTP has stored a new code for user u, no
\* row of u holds another code; a verify request for u that carries a
\* different code, such as the one stored before, gets no token, and a token
\* is given only for the newest code.
C13_NewestOnly ==
    [][/\ \A u \in OtpOwners :
             issued'[u] # issued[u] =>
                 \A r \in DOMAIN otp_codes' : r.user_id = u => r.code = issued'[u].code
       /\ lastReq'.op \in VerifyOps /\ TargetOf(lastReq') \in OtpOwners =>
             LET u == TargetOf(lastReq')
                 accepted == resp'.status = 200 /\ resp'.token # NoToken
             IN  /\ Trim(lastReq'.otp) # issued[u].code
                      => ~accepted /\ resp'.status \in {400, 401, 500}
                 /\ accepted => Trim(lastReq'.otp) = issued[u].code]_vars

\* CodeA, stored first, is refused once CodeB has replaced it
C13_Witness ==
    /\ lastReq.op \in VerifyOps
    /\ TargetOf(lastReq) \in OtpOwners
    /\ Trim(lastReq.otp) = CodeA
    /\ issued[TargetOf(lastReq)].code = CodeB
    /\ resp.status = 400
    /\ resp.error = "Incorrect OTP. Please try again."

\* the endpoint that verifies the codes of user u: adminVerifyOTP for a row of
\* admin_users, verifyOTP for a row of users
VerifierOf(u) == IF \E a \in admin_users : a.id = u THEN "adminVerifyOTP" ELSE "verifyOTP"

\* C14: every otp_codes row written by sendOTP or adminSendOTP has expires_at
\* equal to its issue time plus 10 minutes and used = false, and a verify
\* request that submits that code for that user at any time up to
\* expires_at, with no newer OTP issued and no earlier successful verify, is
\* accepted.
C14_TenMinutes ==
    [][/\ \A u \in OtpOwners :
             issued'[u] # issued[u] =>
                 \E r \in DOMAIN otp_codes' :
                     /\ r.user_id = u /\ r.code = issued'[u].code
                     /\ r.expires_at = now + 10 /\ ~r.used
       /\ \A u \in OtpOwners :
             /\ lastReq'.op = VerifierOf(u) /\ TargetOf(lastReq') = u
             /\ issued[u] # NotIssued
             /\ Trim(lastReq'.otp) = issued[u].code
             /\ now <= issued[u].at + 10
             /\ acceptCount[u] = 0
             => resp'.status = 200 /\ resp'.token # NoToken]_vars

\* C15: when two verifyOTP (or two adminVerifyOTP) requests for the same
\* user with the same correct, unexpired code run interleaved at their
\* database calls, at most one of them is issued a token.
C15_OneTokenConcurrent ==
    \A p, q \in Procs :
        /\ p # q
        /\ inflight[p].req.op = inflight[q].req.op
        /\ inflight[p].req.userId = inflight[q].req.userId
        /\ inflight[p].req.otp = inflight[q].req.otp
        /\ inflight[p].resp.token # NoToken
        => inflight[q].resp.token = NoToken

----------------------------------------------------------------------------
(* Claims about what a handler's answer depends on                         *)

\* a request is handled from the database, at the clock value and with the
\* code drawn that the request set aside had
SameRun ==
    /\ probe.pc = "seen"
    /\ lastReq = NoReq /\ lastReq' = probe.req
    /\ <<users, otp_codes>> = probe.db
    /\ now = probe.now
    /\ (draw' = probe.draw \/ draw' = None \/ probe.draw = None)

\* the database calls and the email provider answered both requests alike, as
\* far as both were asked
SameAnswers ==
    /\ \A i \in DOMAIN calls' \cap DOMAIN probe.calls : calls'[i] = probe.calls[i]
    /\ (mail' = probe.mail \/ mail' = "none" \/ probe.mail = "none")

SameOutcome == resp' = probe.resp /\ <<users', otp_codes'>> = probe.after

====
